---- MODULE Spec2Model ----
(***************************************************************************)
(* Model of the oci-bot chat front-end (src/oci_bot/bot.py, agent.py,      *)
(* config.py).  One Streamlit browser session: the script is run again on  *)
(* every UI event, each run constructs a Session (bot.py:51) and calls     *)
(* Session.start (bot.py:52).  st.session_state survives between runs.     *)
(*                                                                         *)
(* Text is a sequence of one-character strings, so that concatenation,     *)
(* order and emptiness are computed rather than assumed.                   *)
(***************************************************************************)
EXTENDS Naturals, Sequences, FiniteSets

\* ------------------------------------------------------------------ bounds
\* Number of script runs (UI events) explored in one session.
MaxRuns == 2
\* Largest number of fragments in one answer of the remote model.
MaxFrags == 2

\* Characters the remote model's fragments are made of.
Chars == {"a", "b"}
\* Texts the chat input widget can submit (never the empty text).
UserTexts == {<<"q">>, <<"r">>}

\* ------------------------------------------------------------- config.py
ROLE_USER == "user"
ROLE_ASSISTANT == "assistant"

Lit(s) == [kind |-> "lit", text |-> <<s>>, name |-> ""]
Var(n) == [kind |-> "var", text |-> <<>>, name |-> n]

\* Config.PROMPT_TEMPLATE: placeholders context and question.
PROMPT_TEMPLATE ==
    << Lit("Answer the question only based on the following context: "),
       Var("context"), Lit(" Question: "), Var("question") >>

\* Config.PROMPT_TEMPLATE_2: the only placeholder is question.
PROMPT_TEMPLATE_2 ==
    << Lit("Answer the question: Question: "), Var("question") >>

\* States of config/app_config.<env>.yml when OCIAgent.__init__ reads it.
ConfigStates == {"ok", "absent", "no_oci_key", "missing_field"}

\* ------------------------------------------------------------ text helpers
RECURSIVE Flatten(_)
\* Concatenation of a sequence of texts, in order.
Flatten(ss) == IF ss = <<>> THEN <<>> ELSE Head(ss) \o Flatten(Tail(ss))

IsPrefix(s, t) == /\ Len(s) <= Len(t)
                  /\ \A i \in 1..Len(s) : s[i] = t[i]

Last(s) == s[Len(s)]

\* Python's None and a str value.
NoneValue == [isNone |-> TRUE, text |-> <<>>]
Str(t) == [isNone |-> FALSE, text |-> t]
\* Python truthiness of an Optional[str].
Truthy(v) == (~v.isNone) /\ Len(v.text) > 0

Message(role, content) == [role |-> role, content |-> content]

\* A fragment of the remote model's answer: a non-empty text (one character).
Fragments == {<<c>> : c \in Chars}
\* The answers the remote model can give: 0..MaxFrags fragments.
Replies == UNION {[1..n -> Fragments] : n \in 0..MaxFrags}

VARIABLES
    hasMessages,       \* "messages" in st.session_state
    messages,          \* st.session_state.messages
    chatMemory,        \* st.session_state["chat_messages"] (langchain memory)
    pc,                \* position of the script run
    run,               \* number of script runs started
    configFile,        \* state of the configuration file during this run
    agent,             \* Session.agent of this run: "none" or "built"
    error,             \* exception that ended this run: "none", "config", "prompt", "remote"
    hist_i,            \* loop index of __load_history's for loop
    rendered,          \* messages rendered by this run, in order
    user_input,        \* bot.py:38 user_input
    genState,          \* generator of generate_response: none, created, suspended, exhausted, failed
    invocations,       \* number of chain.invoke calls made in this run
    promptSent,        \* the filled prompt submitted to the remote model
    reply,             \* fragments the remote model returned in this run
    emitted,           \* fragments yielded by the generator so far
    streamed_response, \* text accumulated by st.write_stream
    response,          \* bot.py:45 response
    handled,           \* inputs handled by Session.start in this session
    failed             \* inputs whose remote call failed in this session

vars == << hasMessages, messages, chatMemory, pc, run, configFile, agent, error,
           hist_i, rendered, user_input, genState, invocations, promptSent,
           reply, emitted, streamed_response, response, handled, failed >>

sessionVars == << hasMessages, messages, chatMemory >>
genVars == << genState, invocations, promptSent, reply, emitted >>
counters == << handled, failed >>

Init ==
    /\ hasMessages = FALSE
    /\ messages = <<>>
    /\ chatMemory = <<>>
    /\ pc = "idle"
    /\ run = 0
    /\ configFile = "ok"
    /\ agent = "none"
    /\ error = "none"
    /\ hist_i = 1
    /\ rendered = <<>>
    /\ user_input = NoneValue
    /\ genState = "none"
    /\ invocations = 0
    /\ promptSent = <<>>
    /\ reply = <<>>
    /\ emitted = <<>>
    /\ streamed_response = <<>>
    /\ response = NoneValue
    /\ handled = 0
    /\ failed = 0

\* --------------------------------------------------------- bot.py:50-52
\* A UI event reruns the script: a fresh Session object, fresh locals.
StartRun ==
    /\ pc = "idle"
    /\ run < MaxRuns
    /\ run' = run + 1
    /\ \E c \in ConfigStates : configFile' = c
    /\ agent' = "none"
    /\ error' = "none"
    /\ hist_i' = 1
    /\ rendered' = <<>>
    /\ user_input' = NoneValue
    /\ genState' = "none"
    /\ invocations' = 0
    /\ promptSent' = <<>>
    /\ reply' = <<>>
    /\ emitted' = <<>>
    /\ streamed_response' = <<>>
    /\ response' = NoneValue
    /\ pc' = "load_history"
    /\ UNCHANGED << sessionVars, counters >>

\* ------------------------------------------------- bot.py:20-31 __load_history
\* A load that forgets the membership test and always starts an empty history.
LoadHistory_reset ==
    /\ pc = "load_history"
    /\ hasMessages' = TRUE
    /\ messages' = <<>>
    /\ hist_i' = 1
    /\ pc' = "render_history"
    /\ UNCHANGED << chatMemory, run, configFile, agent, error, rendered,
                    user_input, genVars, streamed_response, response, counters >>

\* bot.py:25-26: create the empty history only when the session has none.
LoadHistory ==
    /\ pc = "load_history"
    /\ hasMessages' = TRUE
    /\ messages' = IF hasMessages THEN messages ELSE <<>>
    /\ hist_i' = 1
    /\ pc' = "render_history"
    /\ UNCHANGED << chatMemory, run, configFile, agent, error, rendered,
                    user_input, genVars, streamed_response, response, counters >>

\* bot.py:29-31: one iteration of the for loop renders one stored message.
RenderHistoryStep ==
    /\ pc = "render_history"
    /\ hist_i <= Len(messages)
    /\ rendered' = Append(rendered, messages[hist_i])
    /\ hist_i' = hist_i + 1
    /\ UNCHANGED << sessionVars, pc, run, configFile, agent, error,
                    user_input, genVars, streamed_response, response, counters >>

\* bot.py:29: the loop ends; __init__ goes on to construct the agent.
RenderHistoryDone ==
    /\ pc = "render_history"
    /\ hist_i > Len(messages)
    /\ pc' = "agent_init"
    /\ UNCHANGED << sessionVars, run, configFile, agent, error, hist_i, rendered,
                    user_input, genVars, streamed_response, response, counters >>

\* ------------------------------------------------ agent.py:28-38 __init__
\* open() raises when the file is absent, ['OCI'] when the key is missing,
\* ["AI"][...] / ["COMPARTMENT_OCID"] when a field is missing.
ConfigLoads(c) == c = "ok"

\* A constructor that swallows the configuration error and carries on.
AgentInitFail_swallowed ==
    /\ pc = "agent_init"
    /\ ~ConfigLoads(configFile)
    /\ agent' = "built"
    /\ pc' = "chat_input"
    /\ UNCHANGED << sessionVars, run, configFile, error, hist_i, rendered,
                    user_input, genVars, streamed_response, response, counters >>

AgentInitOK ==
    /\ pc = "agent_init"
    /\ ConfigLoads(configFile)
    /\ agent' = "built"
    /\ pc' = "chat_input"
    /\ UNCHANGED << sessionVars, run, configFile, error, hist_i, rendered,
                    user_input, genVars, streamed_response, response, counters >>

\* The exception leaves OCIAgent(), Session() and the script: the run ends
\* before bot.py:52 chat.start().
AgentInitFail ==
    /\ pc = "agent_init"
    /\ ~ConfigLoads(configFile)
    /\ error' = "config"
    /\ pc' = "idle"
    /\ UNCHANGED << sessionVars, run, configFile, agent, hist_i, rendered,
                    user_input, genVars, streamed_response, response, counters >>

\* ------------------------------------------------------ bot.py:34-46 start
\* bot.py:38: chat_input returns the submitted text, the guard is true.
ChatInputSubmitted ==
    /\ pc = "chat_input"
    /\ \E t \in UserTexts :
          /\ Truthy(Str(t))
          /\ user_input' = Str(t)
    /\ handled' = handled + 1
    /\ pc' = "append_user"
    /\ UNCHANGED << sessionVars, run, configFile, agent, error, hist_i, rendered,
                    genVars, streamed_response, response, failed >>

\* A start whose assistant block is not under the guard.
ChatInputNone_fallthrough ==
    /\ pc = "chat_input"
    /\ ~Truthy(NoneValue)
    /\ user_input' = NoneValue
    /\ pc' = "call_generate"
    /\ UNCHANGED << sessionVars, run, configFile, agent, error, hist_i, rendered,
                    genVars, streamed_response, response, counters >>

\* bot.py:38: nothing was submitted (None): start returns.
ChatInputNone ==
    /\ pc = "chat_input"
    /\ ~Truthy(NoneValue)
    /\ user_input' = NoneValue
    /\ pc' = "idle"
    /\ UNCHANGED << sessionVars, run, configFile, agent, error, hist_i, rendered,
                    genVars, streamed_response, response, counters >>

\* A start that forgets to record the user's message.
AppendUser_skipped ==
    /\ pc = "append_user"
    /\ pc' = "render_user"
    /\ UNCHANGED << sessionVars, run, configFile, agent, error, hist_i, rendered,
                    user_input, genVars, streamed_response, response, counters >>

\* bot.py:39
AppendUser ==
    /\ pc = "append_user"
    /\ messages' = Append(messages, Message(ROLE_USER, user_input.text))
    /\ pc' = "render_user"
    /\ UNCHANGED << hasMessages, chatMemory, run, configFile, agent, error, hist_i,
                    rendered, user_input, genVars, streamed_response, response,
                    counters >>

\* bot.py:40-41
RenderUser ==
    /\ pc = "render_user"
    /\ rendered' = Append(rendered, Message(ROLE_USER, user_input.text))
    /\ pc' = "call_generate"
    /\ UNCHANGED << sessionVars, run, configFile, agent, error, hist_i,
                    user_input, genVars, streamed_response, response, counters >>

\* bot.py:44: calling a generator function runs none of its body.
CallGenerate ==
    /\ pc = "call_generate"
    /\ genState' = "created"
    /\ pc' = "ws_next"
    /\ UNCHANGED << sessionVars, run, configFile, agent, error, hist_i, rendered,
                    user_input, invocations, promptSent, reply, emitted,
                    streamed_response, response, counters >>

\* ------------------------------------- agent.py:41-62 generate_response
\* agent.py:47: ConversationBufferMemory.load_memory_variables renders the
\* stored chat_messages as one text under the key "history".
MemoryLine(m) ==
    (IF m.role = "human" THEN <<"Human: ">> ELSE <<"AI: ">>) \o m.content

HistoryBuffer(mem) == Flatten([i \in 1..Len(mem) |-> MemoryLine(mem[i])])

\* agent.py:61: the chain's inputs are the caller's dict plus the memory's.
ChainInputs(mem, question) ==
    [question |-> question, history |-> HistoryBuffer(mem)]

Placeholders(t) == {t[i].name : i \in {j \in 1..Len(t) : t[j].kind = "var"}}

\* PromptTemplate.format: literals kept, each placeholder replaced by its
\* binding; defined only when every placeholder is bound.
FormatTemplate(t, inputs) ==
    Flatten([i \in 1..Len(t) |->
                IF t[i].kind = "lit" THEN t[i].text ELSE inputs[t[i].name]])

\* A template that injects the conversation memory into the prompt.
GenPromptTemplate_history ==
    << Lit("History: "), Var("history"), Lit(" Question: "), Var("question") >>

\* agent.py:48
GenPromptTemplate == PROMPT_TEMPLATE_2

PromptBound(mem, question) ==
    Placeholders(GenPromptTemplate) \subseteq DOMAIN ChainInputs(mem, question)

\* The prompt generate_response submits for a question, given the memory.
BuildPrompt(mem, question) ==
    FormatTemplate(GenPromptTemplate, ChainInputs(mem, question))

\* A generator that loses the model's answer and yields the empty text.
LLMText_dropped(r) == <<>>

\* agent.py:61-62: llm_response["text"] is the model's whole answer, its
\* fragments concatenated in the order the model produced them.
LLMText(r) == Flatten(r)

\* chain.invoke saves the turn into the memory (prep_outputs).
SaveContext(mem, question, text) ==
    mem \o << Message("human", question), Message("ai", text) >>

\* A generator that catches the remote failure and ends normally.
GenInvokeFail_swallowed ==
    /\ pc = "ws_next"
    /\ genState = "created"
    /\ invocations' = invocations + 1
    /\ promptSent' = BuildPrompt(chatMemory, user_input.text)
    /\ error' = "remote"
    /\ genState' = "exhausted"
    /\ failed' = failed + 1
    /\ pc' = "ws_return"
    /\ UNCHANGED << sessionVars, run, configFile, agent, hist_i, rendered,
                    user_input, reply, emitted, streamed_response, response, handled >>

\* A generator that calls the remote model again after a failure.
GenInvokeFail_retry ==
    /\ pc = "ws_next"
    /\ genState = "created"
    /\ invocations < 2
    /\ invocations' = invocations + 1
    /\ promptSent' = BuildPrompt(chatMemory, user_input.text)
    /\ UNCHANGED << sessionVars, pc, run, configFile, agent, error, hist_i, rendered,
                    user_input, genState, reply, emitted, streamed_response,
                    response, counters >>

\* bot.py:45 first next(): the body runs to the yield (agent.py:46-62); the
\* remote call completes with some answer.
GenInvokeOK ==
    /\ pc = "ws_next"
    /\ genState = "created"
    /\ PromptBound(chatMemory, user_input.text)
    /\ \E r \in Replies :
          /\ reply' = r
          /\ emitted' = Append(emitted, LLMText(r))
          /\ chatMemory' = SaveContext(chatMemory, user_input.text, LLMText(r))
    /\ promptSent' = BuildPrompt(chatMemory, user_input.text)
    /\ invocations' = invocations + 1
    /\ genState' = "suspended"
    /\ pc' = "ws_chunk"
    /\ UNCHANGED << hasMessages, messages, run, configFile, agent, error, hist_i,
                    rendered, user_input, streamed_response, response, counters >>

\* agent.py:61 raises (the remote call fails, or a placeholder is unbound):
\* nothing catches it in generate_response, write_stream or start, so the
\* run ends at bot.py:45 and bot.py:46 is not executed.
GenInvokeFail ==
    /\ pc = "ws_next"
    /\ genState = "created"
    /\ IF PromptBound(chatMemory, user_input.text)
       THEN /\ invocations' = invocations + 1
            /\ promptSent' = BuildPrompt(chatMemory, user_input.text)
            /\ error' = "remote"
       ELSE /\ UNCHANGED << invocations, promptSent >>
            /\ error' = "prompt"
    /\ genState' = "failed"
    /\ failed' = failed + 1
    /\ pc' = "idle"
    /\ UNCHANGED << sessionVars, run, configFile, agent, hist_i, rendered,
                    user_input, reply, emitted, streamed_response, response, handled >>

\* st.write_stream's loop body for a str chunk: an empty chunk is skipped,
\* any other is added to the text shown so far.
WSChunk ==
    /\ pc = "ws_chunk"
    /\ LET chunk == Last(emitted) IN
          IF chunk = <<>>
          THEN UNCHANGED << streamed_response, rendered >>
          ELSE /\ streamed_response' = streamed_response \o chunk
               /\ rendered' = Append(rendered,
                                 Message(ROLE_ASSISTANT, streamed_response \o chunk))
    /\ pc' = "ws_next"
    /\ UNCHANGED << sessionVars, run, configFile, agent, error, hist_i,
                    user_input, genVars, response, counters >>

\* next() after the yield: the generator's body ends (agent.py:62).
GenResume ==
    /\ pc = "ws_next"
    /\ genState = "suspended"
    /\ genState' = "exhausted"
    /\ pc' = "ws_return"
    /\ UNCHANGED << sessionVars, run, configFile, agent, error, hist_i, rendered,
                    user_input, invocations, promptSent, reply, emitted,
                    streamed_response, response, counters >>

\* bot.py:45: write_stream returns the text it wrote ("" when it wrote none).
WSReturn ==
    /\ pc = "ws_return"
    /\ response' = Str(streamed_response)
    /\ pc' = "append_assistant"
    /\ UNCHANGED << sessionVars, run, configFile, agent, error, hist_i, rendered,
                    user_input, genVars, streamed_response, counters >>

\* A start that overwrites the last message with the answer.
AppendAssistant_overwrite ==
    /\ pc = "append_assistant"
    /\ messages' = [messages EXCEPT ![Len(messages)] =
                        Message("assistant", response.text)]
    /\ pc' = "idle"
    /\ UNCHANGED << hasMessages, chatMemory, run, configFile, agent, error, hist_i,
                    rendered, user_input, genVars, streamed_response, response,
                    counters >>

\* bot.py:46
AppendAssistant ==
    /\ pc = "append_assistant"
    /\ messages' = Append(messages, Message("assistant", response.text))
    /\ pc' = "idle"
    /\ UNCHANGED << hasMessages, chatMemory, run, configFile, agent, error, hist_i,
                    rendered, user_input, genVars, streamed_response, response,
                    counters >>

Next ==
    \/ StartRun
    \/ LoadHistory
    \/ RenderHistoryStep
    \/ RenderHistoryDone
    \/ AgentInitOK
    \/ AgentInitFail
    \/ ChatInputSubmitted
    \/ ChatInputNone
    \/ AppendUser
    \/ RenderUser
    \/ CallGenerate
    \/ GenInvokeOK
    \/ GenInvokeFail
    \/ WSChunk
    \/ GenResume
    \/ WSReturn
    \/ AppendAssistant

Spec == Init /\ [][Next]_vars

\* ================================================================ claims
Front(s) == SubSeq(s, 1, Len(s) - 1)

RoleCount(m, r) == Cardinality({i \in 1..Len(m) : m[i].role = r})

\* Roles user, assistant, user, assistant, ... starting with user.
Alternating(m) ==
    \A i \in 1..Len(m) :
        m[i].role = (IF i % 2 = 1 THEN ROLE_USER ELSE ROLE_ASSISTANT)

\* The run is between UI events: the script has returned or raised.
BetweenRuns == pc = "idle"

UserMessageRecorded ==
    LET k == IF BetweenRuns /\ error = "none" THEN Len(messages) - 1
             ELSE Len(messages)
    IN  /\ k >= 1
        /\ messages[k] = Message(ROLE_USER, user_input.text)

\* C3: for one input, (a) the user message is in the history before (b) the
\* remote model is invoked; (c) write_stream has shown exactly the fragments
\* the generator has handed over, in their order; (d) the assistant message
\* is appended only once the generator is exhausted, and its content is the
\* concatenation of all fragments in arrival order.
C3_Order ==
    /\ [](invocations > 0 => UserMessageRecorded)
    /\ [](streamed_response =
            Flatten(IF pc = "ws_chunk" THEN Front(emitted) ELSE emitted))
    /\ [][ (Len(messages') > 0 /\ messages' # messages
              /\ Last(messages').role = ROLE_ASSISTANT)
           => /\ genState = "exhausted"
              /\ messages' = Append(messages,
                                Message(ROLE_ASSISTANT, Flatten(emitted)))
              /\ Flatten(emitted) = Flatten(reply) ]_vars

C3_Witness ==
    /\ BetweenRuns
    /\ invocations = 1
    /\ reply = << <<"a">>, <<"b">> >>
    /\ Len(messages) = 2
    /\ messages[1] = Message(ROLE_USER, user_input.text)
    /\ messages[2] = Message(ROLE_ASSISTANT, <<"a", "b">>)

\* C4: the history is append-only: every step of every operation leaves the
\* history it found as a prefix of the history it leaves.
C4_AppendOnly == [][IsPrefix(messages, messages')]_vars

C4_Witness ==
    /\ BetweenRuns
    /\ Len(messages) = 4
    /\ messages[1].content # messages[3].content
    /\ messages[2].content # messages[4].content

\* Positions of Session.__init__.
InitPcs == {"load_history", "render_history", "agent_init"}

\* C5: constructing Session on a session that already has a history leaves
\* the history exactly as it was, and __load_history renders every stored
\* message exactly once, in history order.
C5_InitIdempotent ==
    /\ [][ (pc \in InitPcs /\ hasMessages) => messages' = messages ]_vars
    /\ [](pc = "agent_init" => rendered = messages)

C5_Witness ==
    /\ pc = "agent_init"
    /\ run >= 2
    /\ Len(messages) = 2
    /\ rendered = messages

\* C6: when the configuration file is absent or incomplete, construction
\* fails with an error that ends the run: no agent is built, start is not
\* reached, no input is taken and the remote model is not invoked.
C6_ConfigFailure ==
    configFile # "ok" =>
        /\ agent = "none"
        /\ pc \in InitPcs \cup {"idle"}
        /\ user_input = NoneValue
        /\ genState = "none"
        /\ invocations = 0
        /\ (BetweenRuns => error = "config")

C6_Witness ==
    /\ BetweenRuns
    /\ configFile = "absent"
    /\ error = "config"
    /\ run >= 2
    /\ Len(messages) >= 2

\* C7: the remote model is invoked at most once per input, and a failed
\* invocation ends the run without another invocation.
C7_NoRetry ==
    /\ invocations <= 1
    /\ (error = "remote" => invocations = 1 /\ BetweenRuns)

C7_Witness ==
    /\ BetweenRuns
    /\ error = "remote"
    /\ invocations = 1
    /\ promptSent # <<>>

\* C8: when the remote call completes, the generator yields finitely many
\* fragments (one) and ends without error; their concatenation is non-empty
\* when the model returned at least one fragment and empty when it returned
\* none, and in that case an assistant message of empty content is appended.
C8_Completes ==
    genState \in {"suspended", "exhausted"} =>
        /\ error = "none"
        /\ Len(emitted) = 1
        /\ (Len(reply) >= 1 => Flatten(emitted) # <<>>)
        /\ (Len(reply) = 0 => Flatten(emitted) = <<>>)
        /\ (BetweenRuns =>
              /\ genState = "exhausted"
              /\ Last(messages) = Message(ROLE_ASSISTANT, Flatten(emitted)))

C8_Witness ==
    /\ BetweenRuns
    /\ genState = "exhausted"
    /\ reply = <<>>
    /\ Len(messages) = 2
    /\ Last(messages) = Message(ROLE_ASSISTANT, <<>>)

\* Memories a second session could hold when it handles the same input.
OtherMemories ==
    { <<>>,
      << Message("human", <<"q">>), Message("ai", <<"a">>) >>,
      << Message("human", <<"r">>), Message("ai", <<>>),
         Message("human", <<"q">>), Message("ai", <<"b", "a">>) >> }

\* C9: the prompt submitted is PROMPT_TEMPLATE_2 filled with the current
\* question alone: it is the same whatever the memory holds, and every
\* placeholder of the template used is bound when the chain is invoked.
C9_PromptOnlyQuestion ==
    /\ (pc = "ws_next" /\ genState = "created") =>
          PromptBound(chatMemory, user_input.text)
    /\ invocations > 0 =>
          /\ promptSent = FormatTemplate(PROMPT_TEMPLATE_2,
                                         [question |-> user_input.text])
          /\ \A m \in OtherMemories :
                BuildPrompt(m, user_input.text) = promptSent

C9_Witness ==
    /\ pc = "ws_chunk"
    /\ invocations = 1
    /\ Len(chatMemory) = 4
    /\ Len(messages) = 3
    /\ promptSent = <<"Answer the question: Question: ", "q">>

\* C10: every assistant message is immediately preceded by a user message,
\* and assistant messages never outnumber user messages.
C10_AssistantAfterUser ==
    /\ \A i \in 1..Len(messages) :
          messages[i].role = ROLE_ASSISTANT =>
              /\ i > 1
              /\ messages[i - 1].role = ROLE_USER
    /\ RoleCount(messages, ROLE_ASSISTANT) <= RoleCount(messages, ROLE_USER)

C10_Witness ==
    /\ BetweenRuns
    /\ Len(messages) = 3
    /\ messages[1].role = ROLE_USER
    /\ messages[2].role = ROLE_USER
    /\ messages[3].role = ROLE_ASSISTANT

====
